---- MODULE Spec2Model ----
(***************************************************************************)
(* A model of the git wrapper library: the ref cache of a Repo, the        *)
(* operations on Refs (resolve, create, delete, remote tracking, ancestry  *)
(* containment) and the porcelain status parser.                           *)
(*                                                                         *)
(* Strings that the code splits on "/" (ref paths, ref names, cache keys)  *)
(* are modelled as the sequence of their "/"-separated segments:           *)
(*   "refs/heads/foo" is <<"refs", "heads", "foo">>, "foo" is <<"foo">>,   *)
(*   "refs/heads/" is <<"refs", "heads", "">> and "" is <<"">>.            *)
(* The bytes of the status output are modelled as sequences of             *)
(* one-character strings, with "NUL" standing for the zero byte.           *)
(***************************************************************************)
EXTENDS Integers, Sequences, FiniteSets, TLC

VARIABLES
    ext,        \* the repository's refs as the external tool sees them: path -> sha
    refs,       \* Repo.refs, the cached RefMap: [loaded, map]; loaded = FALSE is nil
    cfg,        \* the repository's configuration: key -> value
    held,       \* the *Ref the caller holds (NilRef when none)
    ret,        \* what the last operation returned
    cmds,       \* the external commands the last operation issued, in order
    loads,      \* enumerate-refs queries that populated the cache since it was last nil-ed
    deleted,    \* the name and Ref of the last successful Delete, until the next
                \* enumerate-refs query or ReloadRefs
    stdout,     \* the bytes the status query printed
    statLines,  \* the StatLines mapStatus returned
    statRet,    \* "none" before mapStatus ran, then "ok", "panic" (the parser gave
                \* up) or "failed" (the status query did)
    graph,      \* the commit graph of the repository: commit -> its parents
    other       \* the Ref last handed to Contains (NilRef when none)

vars ==
    <<ext, refs, cfg, held, ret, cmds, loads, deleted, stdout, statLines, statRet, graph,
      other>>

-----------------------------------------------------------------------------
(* Bounds of the model. *)

\* The loads counter stops counting here.
MaxLoads == 3

\* The longest status output, in records.
MaxRecords == 2

-----------------------------------------------------------------------------
(* Strings as segment sequences. *)

\* a + b for two strings: the last segment of a and the first of b join.
Cat(a, b) ==
    SubSeq(a, 1, Len(a) - 1) \o <<a[Len(a)] \o b[1]>> \o SubSeq(b, 2, Len(b))

\* strings.HasPrefix(s, d + "/") for a prefix d that ends a segment.
HasDirPrefix(s, d) == Len(s) > Len(d) /\ SubSeq(s, 1, Len(d)) = d

\* The last element of strings.SplitN(s, "/", n).
SplitNLast(s, n) == IF Len(s) < n THEN <<s[Len(s)]>> ELSE SubSeq(s, n, Len(s))

HEAD == <<"HEAD">>
RefsHeads == <<"refs", "heads">>
RefsTags == <<"refs", "tags">>
RefsRemotes == <<"refs", "remotes">>

-----------------------------------------------------------------------------
(* Refs. *)

NilRef == [SHA |-> <<>>, Path |-> <<>>]

IsLocal(r) == HasDirPrefix(r.Path, RefsHeads)
IsRemote(r) == HasDirPrefix(r.Path, RefsRemotes)
IsTag(r) == HasDirPrefix(r.Path, RefsTags)
IsHead(r) == r.Path = HEAD
IsRaw(r) == r.SHA = r.Path

Name(r) == SplitNLast(r.Path, 3)

-----------------------------------------------------------------------------
(* The external tool. *)

\* Every ref path of the model, in the order show-ref prints them (sorted by path).
SortedPaths ==
    << <<"refs", "heads", "foo">>,
       <<"refs", "heads", "origin", "foo">>,
       <<"refs", "remotes", "origin", "foo">>,
       <<"refs", "tags", "origin", "foo">> >>

AllPaths == {SortedPaths[i] : i \in 1..Len(SortedPaths)}

Commits == {<<"c1">>, <<"c2">>}

NoSha == <<>>

\* What the refs of a repository point at before the library changes anything.
InitSha(p) == IF p[2] = "tags" THEN <<"c1">> ELSE <<"c2">>

\* The branch HEAD is a symbolic ref to.
HeadTarget == <<"refs", "heads", "master">>

\* The output of "git show-ref": one line "<sha> <path>" per ref, sorted by path.
\* A line is modelled as the pair its first space separates.
ShowRef(e) ==
    LET present == SelectSeq(SortedPaths, LAMBDA p : p \in DOMAIN e)
    IN  [i \in 1..Len(present) |-> <<e[present[i]], present[i]>>]

\* The commit "git rev-parse" resolves a revision to, NoSha when it names nothing.
RevParse(e, rev) ==
    LET tries == << Cat(<<"refs", "">>, rev), Cat(<<"refs", "tags", "">>, rev),
                    Cat(<<"refs", "heads", "">>, rev), Cat(<<"refs", "remotes", "">>, rev) >>
        hits == SelectSeq(tries, LAMBDA p : p \in DOMAIN e)
    IN  IF rev = HEAD THEN (IF HeadTarget \in DOMAIN e THEN e[HeadTarget] ELSE NoSha)
        ELSE IF rev \in Commits THEN rev
        ELSE IF hits # <<>> THEN e[hits[1]]
        ELSE NoSha

\* "git rev-parse -q --verify <rev>" exits zero.
VerifyOK(e, rev) == RevParse(e, rev) # NoSha

\* The path "git branch <name>" / "git tag <name>" creates or deletes.
TargetPath(reftype, name) ==
    IF reftype = "branch" THEN Cat(<<"refs", "heads", "">>, name)
    ELSE Cat(<<"refs", "tags", "">>, name)

\* "git branch <name> <base>" / "git tag <name> <base>" exits zero.
CreateOK(e, reftype, name, base) ==
    /\ TargetPath(reftype, name) \in AllPaths \ DOMAIN e
    /\ RevParse(e, base) # NoSha

CreateRef(e, reftype, name, base) ==
    [p \in DOMAIN e \cup {TargetPath(reftype, name)} |->
        IF p = TargetPath(reftype, name) THEN RevParse(e, base) ELSE e[p]]

\* "git branch -d <name>" / "git tag -d <name>" exits zero. A branch is deleted
\* only when it is not checked out and is merged.
DeleteOK(e, reftype, name, merged) ==
    /\ TargetPath(reftype, name) \in DOMAIN e
    /\ reftype = "branch" => (TargetPath(reftype, name) # HeadTarget /\ merged)

DeleteRef(e, reftype, name) ==
    [p \in DOMAIN e \ {TargetPath(reftype, name)} |-> e[p]]

ShowRefCmd == <<"show-ref">>
VerifyCmd(rev) == <<"rev-parse", "-q", "--verify">> \o rev
CreateCmd(reftype, name, base) == <<reftype>> \o name \o base
DeleteCmd(reftype, name) == <<reftype, "-d">> \o name

-----------------------------------------------------------------------------
(* The ref cache. *)

NilCache == [loaded |-> FALSE, map |-> <<>>]

\* r.refs[k]: the nil *Ref when the map is nil or has no such key.
Lookup(c, k) == IF c.loaded /\ k \in DOMAIN c.map THEN c.map[k] ELSE NilRef

\* _, found := r.refs[k]
HasKey(c, k) == c.loaded /\ k \in DOMAIN c.map

\* res[k] = v
Put(m, k, v) == [x \in DOMAIN m \cup {k} |-> IF x = k THEN v ELSE m[x]]

\* The scanner loop of load_refs: every line becomes a Ref stored under its Name.
RECURSIVE ScanLines(_, _, _)
ScanLines(lines, i, res) ==
    IF i > Len(lines) THEN res
    ELSE LET ref == [SHA |-> lines[i][1], Path |-> lines[i][2]]
         IN  ScanLines(lines, i + 1, Put(res, Name(ref), ref))

\* The cache a load from the ref set e installs.
Loaded(e) == [loaded |-> TRUE, map |-> ScanLines(ShowRef(e), 1, <<>>)]

\* How a show-ref query ends: it exits zero and prints the refs ("ok"), it
\* exits non-zero ("failed"), or its last line is cut short and has no second
\* field ("short").
Outcomes == {"ok", "failed", "short"}

\* res when the scanner loop of load_refs stops: at the end of the output, or
\* at the line that has no second field, where parts[1] panics.
Scanned(e, ok) ==
    LET lines == ShowRef(e)
    IN  IF ok = "short" THEN ScanLines(SubSeq(lines, 1, Len(lines) - 1), 1, <<>>)
        ELSE ScanLines(lines, 1, <<>>)

\* A load_refs that installs whatever it has scanned when it stops.
InstallAlways(c, res, completed) == [loaded |-> TRUE, map |-> res]

\* r.refs = res is the last statement of load_refs: it is reached only when
\* the query succeeded and the loop ran to its end.
Install(c, res, completed) == IF completed THEN [loaded |-> TRUE, map |-> res] ELSE c

\* A load_refs that takes an empty map for a cache that was never loaded.
NeedsLoadWhenEmpty(c) == ~c.loaded \/ DOMAIN c.map = {}

\* load_refs goes on to query only when r.refs is nil.
NeedsLoad(c) == ~c.loaded

\* load_refs on cache c over the ref set e; ok says how the show-ref query
\* ends. err is "panic" for the panic on a failed query and "index" for the
\* index-out-of-range panic on a short line; n counts the queries that
\* populated the cache.
load_refs(c, e, ok) ==
    IF ~NeedsLoad(c)
    THEN [refs |-> c, cmds |-> <<>>, panic |-> FALSE, err |-> "none", n |-> 0]
    ELSE IF ok = "failed"
    THEN [refs |-> Install(c, <<>>, FALSE), cmds |-> <<ShowRefCmd>>, panic |-> TRUE,
          err |-> "panic", n |-> 0]
    ELSE IF ok = "short"
    THEN [refs |-> Install(c, Scanned(e, ok), FALSE), cmds |-> <<ShowRefCmd>>,
          panic |-> TRUE, err |-> "index", n |-> 0]
    ELSE [refs |-> Install(c, Scanned(e, ok), TRUE), cmds |-> <<ShowRefCmd>>,
          panic |-> FALSE, err |-> "none", n |-> 1]

\* How show-ref ends is open only when load_refs goes on to query.
Oks(c) == IF NeedsLoad(c) THEN Outcomes ELSE {"ok"}

\* A Delete that leaves the cache as it is.
DeleteKeyKeep(c, k) == c

\* delete(r.r.refs, k): nothing happens on a nil map.
DeleteKey(c, k) ==
    IF c.loaded THEN [c EXCEPT !.map = [x \in DOMAIN c.map \ {k} |-> c.map[x]]]
    ELSE c

\* r.refs = nil
Invalidate(c) == NilCache

\* The prefixes Repo.Ref tries, in order.
RefPrefixes == << <<"">>, <<"refs", "heads", "">>, <<"refs", "tags">>, <<"refs", "remotes">> >>

\* The loop of Repo.Ref: the first non-nil cache entry among the prefixed keys.
CacheScan(c, name) ==
    LET found == SelectSeq(RefPrefixes, LAMBDA p : Lookup(c, Cat(p, name)) # NilRef)
    IN  IF found = <<>> THEN NilRef ELSE Lookup(c, Cat(found[1], name))

\* "refs/remotes/" + remote + "/" + name
RemoteKey(remote, name) ==
    Cat(<<"refs", "remotes", "">>, Cat(remote, Cat(<<"", "">>, name)))

-----------------------------------------------------------------------------
(* Inputs. *)

RefNames == {<<"foo">>, <<"origin", "foo">>, HEAD, <<"c2">>}
BranchNames == {<<"foo">>, <<"origin", "foo">>, HEAD}
TagNames == {<<"origin", "foo">>, HEAD}
BaseStrings == {<<"c2">>, <<"zed">>}
Remotes == {<<"origin">>, <<"upstream">>}

NoArg == <<>>
NoGraph == <<>>
NoDelete == [name |-> <<>>, ref |-> NilRef]

\* What an operation returned: self is the Ref a method was called on, arg its
\* string argument, kind the type of the base handed to Branch or Tag, val the
\* returned *Ref, ok the returned boolean (for Ref: the cache had the name).
Result(op, self, arg, kind, val, ok, err) ==
    [op |-> op, self |-> self, arg |-> arg, kind |-> kind, val |-> val, ok |-> ok,
     err |-> err]

NoResult == Result("none", NilRef, NoArg, "", NilRef, FALSE, "none")

Min(a, b) == IF a < b THEN a ELSE b

\* The caller keeps the returned Ref, or goes on with the one it holds.
Keep(val) == IF val = NilRef THEN {held} ELSE {held, val}

\* The bookkeeping every ref operation ends with.
Done(e, c, r, cs, n, invalidated, del) ==
    /\ ext' = e
    /\ refs' = c
    /\ ret' = r
    /\ cmds' = cs
    /\ loads' = Min(MaxLoads, (IF invalidated THEN 0 ELSE loads) + n)
    /\ deleted' = IF del # NoDelete THEN del
                  ELSE IF invalidated \/ \E i \in 1..Len(cs) : cs[i] = ShowRefCmd
                       THEN NoDelete
                  ELSE deleted
    /\ UNCHANGED <<cfg, stdout, statLines, statRet, graph, other>>

-----------------------------------------------------------------------------
(* The operations on refs. *)

\* Repo.Ref(name)
RefOp ==
    \E name \in RefNames, ok \in Oks(refs) :
        LET l   == load_refs(refs, ext, ok)
            hit == CacheScan(l.refs, name)
            raw == [SHA |-> name, Path |-> name]
            val == IF hit # NilRef THEN hit
                   ELSE IF ~VerifyOK(ext, name) THEN raw
                   ELSE NilRef
        IN  IF l.panic
            THEN /\ Done(ext, l.refs, Result("Ref", NilRef, name, "", NilRef, FALSE, l.err),
                         l.cmds, l.n, FALSE, NoDelete)
                 /\ UNCHANGED held
            ELSE /\ Done(ext, l.refs,
                         Result("Ref", NilRef, name, "", val, hit # NilRef,
                                IF val = NilRef THEN "notfound" ELSE "none"),
                         IF hit # NilRef THEN l.cmds ELSE l.cmds \o <<VerifyCmd(name)>>,
                         l.n, FALSE, NoDelete)
                 /\ held' \in Keep(val)

\* Repo.HasRef(ref)
HasRefOp ==
    \E name \in RefNames, ok \in Oks(refs) :
        LET l == load_refs(refs, ext, ok)
        IN  /\ Done(ext, l.refs,
                    IF l.panic
                    THEN Result("HasRef", NilRef, name, "", NilRef, FALSE, l.err)
                    ELSE Result("HasRef", NilRef, name, "", NilRef,
                                HasKey(l.refs, name), "none"),
                    l.cmds, l.n, FALSE, NoDelete)
            /\ UNCHANGED held

\* Ref.HasRemoteRef(remote), on the Ref the caller holds
HasRemoteRefOp ==
    /\ held # NilRef
    /\ \E remote \in Remotes, ok \in Oks(refs) :
        LET l == load_refs(refs, ext, ok)
        IN  IF ~IsLocal(held)
            THEN Done(ext, refs,
                      Result("HasRemoteRef", held, remote, "", NilRef, FALSE, "none"),
                      <<>>, 0, FALSE, NoDelete)
            ELSE Done(ext, l.refs,
                      IF l.panic
                      THEN Result("HasRemoteRef", held, remote, "", NilRef, FALSE, l.err)
                      ELSE Result("HasRemoteRef", held, remote, "", NilRef,
                                  HasKey(l.refs, RemoteKey(remote, Name(held))), "none"),
                      l.cmds, l.n, FALSE, NoDelete)
    /\ UNCHANGED held

\* Ref.RemoteBranch(remote), on the Ref the caller holds
RemoteBranchOp ==
    /\ held # NilRef
    /\ \E remote \in Remotes :
        LET res == Lookup(refs, RemoteKey(remote, Name(held)))
            val == IF IsLocal(held) THEN res ELSE NilRef
            err == IF ~IsLocal(held) THEN "notlocal"
                   ELSE IF res = NilRef THEN "noremote" ELSE "none"
        IN  /\ Done(ext, refs,
                    Result("RemoteBranch", held, remote, "", val, val # NilRef, err),
                    <<>>, 0, FALSE, NoDelete)
            /\ held' \in Keep(val)

\* Repo.ReloadRefs()
ReloadRefsOp ==
    /\ Done(ext, NilCache, Result("ReloadRefs", NilRef, NoArg, "", NilRef, TRUE, "none"),
            <<>>, 0, TRUE, NoDelete)
    /\ UNCHANGED held

\* A Delete that takes whatever is not a tag for a branch.
DeleteKindUnguarded(r) == IF IsTag(r) THEN "tag" ELSE "branch"

\* The if-chain of Ref.Delete: the error it returns at once, the panic, or the
\* command it goes on to run.
DeleteKind(r) ==
    IF IsRemote(r) THEN "remote"
    ELSE IF IsHead(r) THEN "head"
    ELSE IF IsTag(r) THEN "tag"
    ELSE IF IsLocal(r) THEN "branch"
    ELSE "panic"

\* A Delete that drops the cache entry whatever the command returned.
ForgetAlways(c, k, ok) == DeleteKey(c, k)

\* if err == nil { delete(r.r.refs, r.Name()) }
Forget(c, k, ok) == IF ok THEN DeleteKey(c, k) ELSE c

\* Ref.Delete(), on the Ref the caller holds; merged is the external tool's
\* verdict on a branch.
DeleteOp ==
    /\ held # NilRef
    /\ \E merged \in BOOLEAN :
        LET c    == DeleteKind(held)
            name == Name(held)
        IN  IF c \notin {"tag", "branch"}
            THEN Done(ext, refs, Result("Delete", held, NoArg, "", NilRef, FALSE, c),
                      <<>>, 0, FALSE, NoDelete)
            ELSE IF DeleteOK(ext, c, name, merged)
            THEN Done(DeleteRef(ext, c, name), Forget(refs, name, TRUE),
                      Result("Delete", held, NoArg, "", NilRef, TRUE, "none"),
                      <<DeleteCmd(c, name)>>, 0, FALSE, [name |-> name, ref |-> held])
            ELSE Done(ext, Forget(refs, name, FALSE),
                      Result("Delete", held, NoArg, "", NilRef, FALSE, "git"),
                      <<DeleteCmd(c, name)>>, 0, FALSE, NoDelete)
    /\ UNCHANGED held

\* The bases a caller passes to Branch and Tag: the Ref it holds, a revision
\* string, or a value of another type.
Bases ==
    {[kind |-> "string", ref |-> NilRef, s |-> b] : b \in BaseStrings}
        \cup {[kind |-> "other", ref |-> NilRef, s |-> NoArg]}
        \cup (IF held = NilRef THEN {} ELSE {[kind |-> "ref", ref |-> held, s |-> NoArg]})

\* A make_ref that never finds the name taken.
NameTakenNever(c, name) == FALSE

\* r.refs[name] != nil
NameTaken(c, name) == Lookup(c, name) # NilRef

\* Repo.make_ref(reftype, name, base); ok1 and ok2 say how the first and the
\* second show-ref query end.
make_ref(reftype, name, base, ok1) ==
    LET l1   == load_refs(refs, ext, ok1)
        op   == IF reftype = "branch" THEN "Branch" ELSE "Tag"
        rev  == IF base.kind = "ref" THEN Name(base.ref) ELSE base.s
        cmd  == CreateCmd(reftype, name, rev)
        ext2 == CreateRef(ext, reftype, name, rev)
        l2(ok2) == load_refs(Invalidate(l1.refs), ext2, ok2)
        fail(err, cs) ==
            /\ Done(ext, l1.refs, Result(op, NilRef, name, base.kind, NilRef, FALSE, err),
                    cs, l1.n, FALSE, NoDelete)
            /\ UNCHANGED held
    IN  IF l1.panic THEN fail(l1.err, l1.cmds)
        ELSE IF name = HEAD THEN fail("head", l1.cmds)
        ELSE IF NameTaken(l1.refs, name) THEN fail("exists", l1.cmds)
        ELSE IF ~(reftype = "branch" \/ reftype = "tag") THEN fail("reftype", l1.cmds)
        ELSE IF base.kind \notin {"ref", "string"} THEN fail("basetype", l1.cmds)
        ELSE IF ~CreateOK(ext, reftype, name, rev) THEN fail("git", l1.cmds \o <<cmd>>)
        ELSE \E ok2 \in Oks(Invalidate(l1.refs)) :
            IF l2(ok2).panic
            THEN /\ Done(ext2, l2(ok2).refs,
                         Result(op, NilRef, name, base.kind, NilRef, FALSE, l2(ok2).err),
                         l1.cmds \o <<cmd>> \o l2(ok2).cmds, 0, TRUE, NoDelete)
                 /\ UNCHANGED held
            ELSE /\ Done(ext2, l2(ok2).refs,
                         Result(op, NilRef, name, base.kind, Lookup(l2(ok2).refs, name),
                                TRUE, "none"),
                         l1.cmds \o <<cmd>> \o l2(ok2).cmds, l2(ok2).n, TRUE, NoDelete)
                 /\ held' \in Keep(Lookup(l2(ok2).refs, name))

\* Repo.Branch(name, base)
BranchOp ==
    \E name \in BranchNames, base \in Bases, ok1 \in Oks(refs) :
        make_ref("branch", name, base, ok1)

\* Repo.Tag(name, base)
TagOp ==
    \E name \in TagNames, base \in Bases, ok1 \in Oks(refs) :
        make_ref("tag", name, base, ok1)

-----------------------------------------------------------------------------
(* The specification of the ref operations: a repository with any of the    *)
(* model's refs, freshly opened.                                            *)

InitRefs ==
    /\ \E S \in SUBSET AllPaths : ext = [p \in S |-> InitSha(p)]
    /\ refs = NilCache
    /\ held = NilRef
    /\ ret = NoResult
    /\ cmds = <<>>
    /\ loads = 0
    /\ deleted = NoDelete

Init ==
    /\ InitRefs
    /\ cfg = <<>>
    /\ stdout = <<>>
    /\ statLines = <<>>
    /\ statRet = "none"
    /\ graph = NoGraph
    /\ other = NilRef

Next ==
    \/ RefOp
    \/ HasRefOp
    \/ HasRemoteRefOp
    \/ RemoteBranchOp
    \/ ReloadRefsOp
    \/ DeleteOp
    \/ BranchOp
    \/ TagOp

Spec == Init /\ [][Next]_vars

-----------------------------------------------------------------------------
(* Remote tracking. The configuration is a map from [section, key] to the   *)
(* value; the section of a branch is "branch." + its name.                  *)

Section(name) == <<"branch">> \o name
Key(section, key) == [section |-> section, key |-> key]

\* Repo.Get(k): the value and whether the key is set.
Get(c, k) ==
    IF k \in DOMAIN c THEN [value |-> c[k], exists |-> TRUE]
    ELSE [value |-> <<>>, exists |-> FALSE]

\* Repo.Set(k, v)
Set(c, k, v) == [x \in DOMAIN c \cup {k} |-> IF x = k THEN v ELSE c[x]]

\* Repo.maybeKillSection(section): every key of the section goes.
maybeKillSection(c, section) ==
    [x \in {k \in DOMAIN c : k.section # section} |-> c[x]]

SetCmd(k, v) == <<"config">> \o k.section \o <<k.key>> \o v
KillCmd(section) == <<"config", "--remove-section">> \o section

\* A TrackRemote that compares the merge key with the branch's name.
AlreadyTrackingByName(c, r, remote) ==
    LET section == Section(Name(r))
        branch_remote == Get(c, Key(section, "remote"))
        branch_merge == Get(c, Key(section, "merge"))
    IN  /\ branch_remote.exists
        /\ branch_merge.exists
        /\ branch_remote.value = remote
        /\ branch_merge.value = Name(r)

\* The test of TrackRemote for "we already have the right config".
AlreadyTracking(c, r, remote) ==
    LET section == Section(Name(r))
        branch_remote == Get(c, Key(section, "remote"))
        branch_merge == Get(c, Key(section, "merge"))
    IN  /\ branch_remote.exists
        /\ branch_merge.exists
        /\ branch_remote.value = remote
        /\ branch_merge.value = r.Path

TrackDone(c, r, cs) ==
    /\ cfg' = c
    /\ ret' = r
    /\ cmds' = cs
    /\ UNCHANGED <<ext, refs, held, loads, deleted, stdout, statLines, statRet, graph, other>>

\* Ref.TrackRemote(remote), on the Ref the caller holds
TrackRemoteOp ==
    \E remote \in Remotes :
        LET section == Section(Name(held))
            stale   == Get(cfg, Key(section, "remote")).exists
                           \/ Get(cfg, Key(section, "merge")).exists
            cleared == IF stale THEN maybeKillSection(cfg, section) ELSE cfg
            written == Set(Set(cleared, Key(section, "remote"), remote),
                           Key(section, "merge"), held.Path)
        IN  IF ~IsLocal(held)
            THEN TrackDone(cfg, Result("TrackRemote", held, remote, "", NilRef, FALSE,
                                       "notlocal"), <<>>)
            ELSE IF AlreadyTracking(cfg, held, remote)
            THEN TrackDone(cfg, Result("TrackRemote", held, remote, "", NilRef, TRUE,
                                       "none"), <<>>)
            ELSE TrackDone(written,
                           Result("TrackRemote", held, remote, "", NilRef, TRUE, "none"),
                           (IF stale THEN <<KillCmd(section)>> ELSE <<>>)
                               \o <<SetCmd(Key(section, "remote"), remote),
                                    SetCmd(Key(section, "merge"), held.Path)>>)

\* Ref.Tracks(), on the Ref the caller holds
TracksOp ==
    LET remote == Get(cfg, Key(Section(Name(held)), "remote"))
    IN  IF ~IsLocal(held)
        THEN TrackDone(cfg, Result("Tracks", held, NoArg, "", NilRef, FALSE, "notlocal"),
                       <<>>)
        ELSE IF remote.exists
        THEN TrackDone(cfg, Result("Tracks", held, remote.value, "", NilRef, TRUE, "none"),
                       <<>>)
        ELSE TrackDone(cfg, Result("Tracks", held, NoArg, "", NilRef, FALSE, "notracking"),
                       <<>>)

\* The values the keys of a branch's section take in the model.
ConfigValues(r, key) ==
    IF key = "remote" THEN Remotes
    ELSE IF key = "merge" THEN {r.Path, <<"refs", "heads", "other">>, Name(r)}
    ELSE {<<"true">>}

ConfigKeys == {"remote", "merge", "rebase"}

\* Repo.Set(k, v) called by the user of the library, on the held Ref's section
SetOp ==
    \E key \in ConfigKeys : \E v \in ConfigValues(held, key) :
        LET k == Key(Section(Name(held)), key)
        IN  TrackDone(Set(cfg, k, v), Result("Set", held, v, key, NilRef, TRUE, "none"),
                      <<SetCmd(k, v)>>)

\* The Refs TrackRemote is called on: a branch, a branch with a slash in its
\* name, a tag.
TrackRefs ==
    {[SHA |-> <<"c2">>, Path |-> <<"refs", "heads", "foo">>],
     [SHA |-> <<"c2">>, Path |-> <<"refs", "heads", "origin", "foo">>],
     [SHA |-> <<"c1">>, Path |-> <<"refs", "tags", "origin", "foo">>]}

\* The configurations a repository starts with: any part of the held Ref's
\* section set, to any of the model's values.
InitConfigs(r) ==
    UNION {[{Key(Section(Name(r)), key) : key \in keys} ->
                UNION {ConfigValues(r, key) : key \in ConfigKeys}] :
           keys \in SUBSET ConfigKeys}

InitTrack ==
    /\ ext = [p \in AllPaths |-> InitSha(p)]
    /\ refs = NilCache
    /\ held \in TrackRefs
    /\ cfg \in {c \in InitConfigs(held) :
                   \A k \in DOMAIN c : c[k] \in ConfigValues(held, k.key)}
    /\ ret = NoResult
    /\ cmds = <<>>
    /\ loads = 0
    /\ deleted = NoDelete
    /\ stdout = <<>>
    /\ statLines = <<>>
    /\ statRet = "none"
    /\ graph = NoGraph
    /\ other = NilRef

NextTrack ==
    \/ TrackRemoteOp
    \/ TracksOp
    \/ SetOp

SpecTrack == InitTrack /\ [][NextTrack]_vars

-----------------------------------------------------------------------------
(* The status parser. A string is the sequence of its characters. *)

\* The zero byte that ends every record.
NUL == "NUL"

\* The characters of statusRE's two classes.
StatusCodes == {" ", "M", "A", "D", "R", "C", "U", "!", "?"}

\* statusRE.FindStringSubmatch(line): "." matches every character but the
\* newline, the NUL that ends the line included.
Matches(line) ==
    /\ Len(line) >= 3
    /\ line[1] \in StatusCodes
    /\ line[2] \in StatusCodes
    /\ line[3] = " "
    /\ \A i \in 4..Len(line) : line[i] # "\n"

\* The position of the first zero byte of buf, 0 when there is none.
FirstNUL(buf) ==
    IF \E i \in 1..Len(buf) : buf[i] = NUL
    THEN CHOOSE i \in 1..Len(buf) : buf[i] = NUL /\ \A j \in 1..(i - 1) : buf[j] # NUL
    ELSE 0

\* The nil *StatLine.
NoStat == [indexStat |-> "", workStat |-> "", oldPath |-> <<>>, newPath |-> <<>>]

\* A mapStatus that puts every StatLine in front of the ones it has.
FlushFront(res, thisStat) == IF thisStat # NoStat THEN <<thisStat>> \o res ELSE res

\* res = append(res, thisStat), when thisStat is not nil.
Flush(res, thisStat) == IF thisStat # NoStat THEN Append(res, thisStat) ELSE res

\* The loop of mapStatus over what is left of the output: ReadString(0)
\* returns the bytes up to and including the next zero byte, and fails at the
\* end of the buffer.
RECURSIVE MapLoop(_, _, _)
MapLoop(buf, thisStat, res) ==
    LET n    == FirstNUL(buf)
        line == SubSeq(buf, 1, n)
        rest == SubSeq(buf, n + 1, Len(buf))
    IN  IF n = 0 THEN [lines |-> Flush(res, thisStat), ret |-> "ok"]
        ELSE IF Matches(line)
        THEN MapLoop(rest,
                     [indexStat |-> line[1], workStat |-> line[2],
                      oldPath |-> SubSeq(line, 4, Len(line)),
                      newPath |-> SubSeq(line, 4, Len(line))],
                     Flush(res, thisStat))
        ELSE IF thisStat # NoStat
        THEN MapLoop(rest, [thisStat EXCEPT !.newPath = line], res)
        ELSE [lines |-> <<>>, ret |-> "panic"]

\* Repo.mapStatus(); ok says whether the status query exits zero.
mapStatus(out, ok) ==
    IF ~ok THEN [lines |-> <<>>, ret |-> "panic"] ELSE MapLoop(out, NoStat, <<>>)

MapStatusOp ==
    /\ statRet = "none"
    /\ \E ok \in BOOLEAN :
        /\ statLines' = mapStatus(stdout, ok).lines
        /\ statRet' = IF ok THEN mapStatus(stdout, ok).ret ELSE "failed"
    /\ UNCHANGED <<ext, refs, cfg, held, ret, cmds, loads, deleted, stdout, graph, other>>

\* The records of "git status --porcelain -z": a status record "XY <path>" or
\* the raw path that follows the record of a rename, each ended by a zero byte.
StatusPaths == {<<"a">>, <<"b">>}
StatusRecord(x, y, path) == <<x, y, " ">> \o path \o <<NUL>>
RawRecord(path) == path \o <<NUL>>

\* The status codes the model's outputs are made of.
OutputCodes == {" ", "M", "R", "?"}

Records ==
    {StatusRecord(x, y, path) : x \in OutputCodes, y \in OutputCodes, path \in StatusPaths}
        \cup {RawRecord(path) : path \in StatusPaths}

RECURSIVE Flatten(_)
Flatten(recs) == IF recs = <<>> THEN <<>> ELSE Head(recs) \o Flatten(Tail(recs))

StatusOutputs ==
    {Flatten(recs) : recs \in UNION {[1..n -> Records] : n \in 0..MaxRecords}}

InitStatus ==
    /\ ext = <<>>
    /\ refs = NilCache
    /\ cfg = <<>>
    /\ held = NilRef
    /\ ret = NoResult
    /\ cmds = <<>>
    /\ loads = 0
    /\ deleted = NoDelete
    /\ stdout \in StatusOutputs
    /\ statLines = <<>>
    /\ statRet = "none"
    /\ graph = NoGraph
    /\ other = NilRef

NextStatus == MapStatusOp

SpecStatus == InitStatus /\ [][NextStatus]_vars

-----------------------------------------------------------------------------
(* Ancestry containment. *)

\* The commits of the model's commit graphs.
GraphCommits == {<<"c1">>, <<"c2">>, <<"c3">>}

\* The commits S and what n steps along the parent links reach from them.
RECURSIVE Ancestors(_, _, _)
Ancestors(g, S, n) ==
    IF n = 0 THEN S ELSE Ancestors(g, S \cup UNION {g[c] : c \in S}, n - 1)

\* The commits reachable from commit c, c included.
Reachable(g, c) == Ancestors(g, {c}, Cardinality(DOMAIN g))

\* No commit is its own ancestor.
Acyclic(g) == \A c \in DOMAIN g : c \notin Ancestors(g, g[c], Cardinality(DOMAIN g))

\* A Contains that asks for what r reaches and other does not.
RangeSwapped(r, o) == [from |-> r.SHA, not |-> o.SHA]

\* The range Contains asks rev-list for: other.SHA and "^" + r.SHA.
Range(r, o) == [from |-> o.SHA, not |-> r.SHA]

RevListCmd(range) == <<"rev-list">> \o range.from \o <<"^">> \o range.not

\* "git rev-list <from> ^<not>" exits zero: both revisions name commits.
RevListOK(g, range) == range.from \in DOMAIN g /\ range.not \in DOMAIN g

\* What it prints: the commits reachable from <from> and not from <not>.
RevList(g, range) == Reachable(g, range.from) \ Reachable(g, range.not)

\* A Contains that takes two Refs for the same only when they are one Ref.
SameRef(r, o) == r = o

\* r.SHA == other.SHA
SameSHA(r, o) == r.SHA = o.SHA

\* Ref.Contains(other) on the Ref r; ok says whether rev-list can run at all.
Contains(g, r, o, ok) ==
    IF SameSHA(r, o) THEN [res |-> TRUE, err |-> "none", cmds |-> <<>>]
    ELSE IF ~(ok /\ RevListOK(g, Range(r, o)))
    THEN [res |-> FALSE, err |-> "git", cmds |-> <<RevListCmd(Range(r, o))>>]
    ELSE [res |-> RevList(g, Range(r, o)) = {}, err |-> "none",
          cmds |-> <<RevListCmd(Range(r, o))>>]

\* The Refs Contains is called on and with: branches and tags at the commits of
\* the graph, and the raw Ref of a name that is no revision.
ContainsRefs ==
    {[SHA |-> c, Path |-> p] :
        c \in GraphCommits,
        p \in {<<"refs", "heads", "foo">>, <<"refs", "tags", "origin", "foo">>}}
        \cup {[SHA |-> <<"zed">>, Path |-> <<"zed">>]}

\* Ref.Contains(other), on the Ref the caller holds
ContainsOp ==
    \E o \in ContainsRefs, ok \in BOOLEAN :
        LET c == Contains(graph, held, o, ok)
        IN  /\ other' = o
            /\ ret' = Result("Contains", held, NoArg, "", NilRef, c.res, c.err)
            /\ cmds' = c.cmds
            /\ UNCHANGED <<ext, refs, cfg, held, loads, deleted, stdout, statLines, statRet,
                           graph>>

InitContains ==
    /\ ext = <<>>
    /\ refs = NilCache
    /\ cfg = <<>>
    /\ held \in ContainsRefs
    /\ ret = NoResult
    /\ cmds = <<>>
    /\ loads = 0
    /\ deleted = NoDelete
    /\ stdout = <<>>
    /\ statLines = <<>>
    /\ statRet = "none"
    /\ graph \in {g \in [GraphCommits -> SUBSET GraphCommits] : Acyclic(g)}
    /\ other = NilRef

NextContains == ContainsOp

SpecContains == InitContains /\ [][NextContains]_vars

-----------------------------------------------------------------------------
(* Properties of the ref operations. *)

HasShowRef(cs) == \E i \in 1..Len(cs) : cs[i] = ShowRefCmd

\* The operation did not return: a load in it panicked.
LoadPanicked(r) == r.op # "Delete" /\ r.err \in {"panic", "index"}

IsCreateCmd(c) == c[1] \in {"branch", "tag"} /\ c[2] # "-d"

\* The path of the remote-tracking ref of branch name on remote.
RemoteTrackingPath(remote, name) == <<"refs", "remotes">> \o remote \o name

\* C1: when Ref(name) finds name under none of the cache keys it tries, it
\* returns the raw Ref (SHA = Path = name) and no error if the revision-verify
\* query succeeds, and a nil Ref and a "not found" error if the query fails.
C1_RawFallback ==
    (ret.op = "Ref" /\ ~LoadPanicked(ret) /\ ~ret.ok) =>
        IF VerifyOK(ext, ret.arg)
        THEN ret.val = [SHA |-> ret.arg, Path |-> ret.arg] /\ ret.err = "none"
        ELSE ret.val = NilRef /\ ret.err = "notfound"

\* C3: on a local ref named n, with the cache loaded from a ref set that has
\* refs/remotes/m/n, RemoteBranch(m) returns the Ref with that Path and no
\* error; it fails only when the loaded ref set has no such ref, and it never
\* issues an enumerate-refs query.
C3_RemoteBranch ==
    (ret.op = "RemoteBranch" /\ IsLocal(ret.self) /\ refs = Loaded(ext)) =>
        /\ ~HasShowRef(cmds)
        /\ IF RemoteTrackingPath(ret.arg, Name(ret.self)) \in DOMAIN ext
           THEN /\ ret.err = "none"
                /\ ret.val.Path = RemoteTrackingPath(ret.arg, Name(ret.self))
           ELSE ret.err # "none"

\* C4: on a local ref named n, HasRemoteRef(m) is true exactly when
\* refs/remotes/m/n is a ref of the repository; on any other ref it is false,
\* without an error.
C4_HasRemoteRef ==
    (ret.op = "HasRemoteRef" /\ ~LoadPanicked(ret)) =>
        IF IsLocal(ret.self)
        THEN ret.ok <=> (RemoteTrackingPath(ret.arg, Name(ret.self)) \in DOMAIN ext)
        ELSE ~ret.ok /\ ret.err = "none"

\* C5: after a Delete succeeded on the branch or tag named n, and as long as no
\* enumerate-refs query and no ReloadRefs happened since, the cache has no key
\* n, HasRef(n) returns false and Ref(n) does not return the deleted Ref.
C5_DeletedAbsent ==
    deleted # NoDelete =>
        /\ ~HasKey(refs, deleted.name)
        /\ CacheScan(refs, deleted.name) # deleted.ref
        /\ (ret.op = "HasRef" /\ ret.arg = deleted.name) => ~ret.ok
        /\ (ret.op = "Ref" /\ ret.arg = deleted.name) => ret.val # deleted.ref

\* A lookup of a deleted name answered from the cache the Delete left behind.
C5_Witness ==
    /\ deleted # NoDelete
    /\ refs.loaded
    /\ ret.op \in {"HasRef", "Ref"}
    /\ ret.arg = deleted.name
    /\ IsTag(deleted.ref) \/ IsLocal(deleted.ref)

\* C6: Delete on a Ref whose Path is HEAD or starts with refs/remotes/ returns
\* an error, runs no external command and changes neither the repository's
\* refs nor the cache.
C6_DeleteGuards ==
    [][(ret'.op = "Delete" /\ (IsHead(held) \/ IsRemote(held))) =>
            /\ ret'.err \in {"head", "remote"}
            /\ cmds' = <<>>
            /\ ext' = ext
            /\ refs' = refs]_vars

\* Delete was called on HEAD.
C6_Witness ==
    ret.op = "Delete" /\ IsHead(ret.self) /\ ret.err = "head" /\ cmds = <<>>

\* Delete was called on a remote-tracking ref.
C6_WitnessRemote ==
    ret.op = "Delete" /\ IsRemote(ret.self) /\ ret.err = "remote" /\ cmds = <<>>

\* C8: a populated cache, the empty map of a repository without refs included,
\* makes the loader a no-op: an operation that finds the cache populated starts
\* with no enumerate-refs query, the reading operations issue none at all and
\* leave the cache alone, and a populated cache was filled by exactly one
\* query since it was last invalidated.
C8_IdempotentLoad ==
    [][/\ refs.loaded => (cmds' = <<>> \/ cmds'[1] # ShowRefCmd)
       /\ (refs.loaded /\ ret'.op \in {"Ref", "HasRef", "HasRemoteRef"}) =>
            (~HasShowRef(cmds') /\ refs' = refs)
       /\ refs'.loaded => loads' = 1]_vars

\* A read of the populated, empty cache of a repository without refs.
C8_Witness ==
    /\ DOMAIN ext = {}
    /\ refs.loaded
    /\ DOMAIN refs.map = {}
    /\ ret.op \in {"Ref", "HasRef"}
    /\ ~HasShowRef(cmds)
    /\ loads = 1

CacheAfterLoad == IF refs.loaded THEN refs ELSE Loaded(ext)

\* C10: Branch or Tag called with the name HEAD, with a name that is a key of
\* the cache, or with a base that is neither a Ref nor a string returns a nil
\* Ref and an error, issues no create-ref command and leaves the repository's
\* refs as they are.
C10_MakeRefGuards ==
    [][(/\ ret'.op \in {"Branch", "Tag"}
        /\ \/ ret'.arg = HEAD
           \/ HasKey(CacheAfterLoad, ret'.arg)
           \/ ret'.kind \notin {"ref", "string"}) =>
            /\ ret'.val = NilRef
            /\ ret'.err # "none"
            /\ \A i \in 1..Len(cmds') : ~IsCreateCmd(cmds'[i])
            /\ ext' = ext]_vars

\* Branch or Tag refused a name that the cache has.
C10_Witness ==
    ret.op \in {"Branch", "Tag"} /\ ret.err = "exists" /\ HasKey(refs, ret.arg)

\* Branch or Tag refused HEAD, and a base of another type.
C10_WitnessHead == ret.op \in {"Branch", "Tag"} /\ ret.err = "head"
C10_WitnessBase == ret.op \in {"Branch", "Tag"} /\ ret.err = "basetype"

\* The first of the keys name, "refs/heads/" + name, "refs/tags" + name and
\* "refs/remotes" + name that the cache c has, <<>> when it has none.
FirstKey(c, name) ==
    IF HasKey(c, name) THEN name
    ELSE IF HasKey(c, Cat(<<"refs", "heads", "">>, name))
    THEN Cat(<<"refs", "heads", "">>, name)
    ELSE IF HasKey(c, Cat(<<"refs", "tags">>, name)) THEN Cat(<<"refs", "tags">>, name)
    ELSE IF HasKey(c, Cat(<<"refs", "remotes">>, name))
    THEN Cat(<<"refs", "remotes">>, name)
    ELSE <<>>

\* The refs of the repository whose short name is name.
RefsNamed(e, name) == {p \in DOMAIN e : Name([SHA |-> e[p], Path |-> p]) = name}

\* Ref(name) returns the entry under the first key the cache has and issues
\* no revision-verify query on a hit.
C11_KeyOrder ==
    (ret.op = "Ref" /\ ~LoadPanicked(ret)) =>
        /\ ret.ok <=> FirstKey(refs, ret.arg) # <<>>
        /\ ret.ok => /\ ret.val = refs.map[FirstKey(refs, ret.arg)]
                     /\ ret.err = "none"
                     /\ \A i \in 1..Len(cmds) : cmds[i] # VerifyCmd(ret.arg)

\* C11: Ref(name) tries the cache keys name, "refs/heads/" + name,
\* "refs/tags" + name and "refs/remotes" + name in that order and returns the
\* first entry found, with no revision-verify query on a hit; and when the only
\* ref with short name foo is the branch refs/heads/foo, Ref(foo) returns the
\* Ref with Path refs/heads/foo.
C11_ResolutionOrder ==
    /\ C11_KeyOrder
    /\ (/\ ret.op = "Ref"
        /\ ~LoadPanicked(ret)
        /\ RefsNamed(ext, ret.arg) = {Cat(<<"refs", "heads", "">>, ret.arg)}) =>
            /\ ret.val # NilRef
            /\ ret.val.Path = Cat(<<"refs", "heads", "">>, ret.arg)

\* The last "/"-separated segment of a path.
LastSegment(path) == <<path[Len(path)]>>

\* C15: the Name() of every loaded Ref is the last segment of its Path, which
\* for a remote-tracking ref refs/remotes/<remote>/<branch> is just <branch>,
\* and the key the cache holds the Ref under is that Name().
C15_NameLastSegment ==
    refs.loaded =>
        \A k \in DOMAIN refs.map :
            /\ Name(refs.map[k]) = LastSegment(refs.map[k].Path)
            /\ IsRemote(refs.map[k]) =>
                    Name(refs.map[k]) = SubSeq(refs.map[k].Path, 4, Len(refs.map[k].Path))
            /\ k = Name(refs.map[k])

\* The key of every loaded Ref is what Name() returns for it.
C15_KeyIsName == refs.loaded => \A k \in DOMAIN refs.map : k = Name(refs.map[k])

\* The operations that call load_refs, whatever Ref they are called on.
LoadingOps == {"Ref", "HasRef", "Branch", "Tag"}

\* C16: when the enumerate-refs query of a load fails, or the load aborts on a
\* record it cannot split, no map is installed: the cache is nil after the
\* operation; a cache that is populated after a query holds every ref the
\* query printed, never a part of them; and the next operation that goes
\* through the loader issues the enumerate-refs query again, first thing.
C16_FailedLoadLeavesNil ==
    [][/\ LoadPanicked(ret') => (HasShowRef(cmds') /\ refs' = NilCache)
       /\ (HasShowRef(cmds') /\ refs'.loaded) => refs' = Loaded(ext')
       /\ (/\ LoadPanicked(ret)
           /\ \/ ret'.op \in LoadingOps
              \/ ret'.op = "HasRemoteRef" /\ IsLocal(held)) =>
                (cmds' # <<>> /\ cmds'[1] = ShowRefCmd)]_vars

\* A load of a repository with refs failed on the query.
C16_Witness ==
    /\ LoadPanicked(ret)
    /\ ret.err = "panic"
    /\ DOMAIN ext # {}
    /\ refs = NilCache

\* A load aborted on a short line after it had scanned a record.
C16_WitnessShort ==
    /\ LoadPanicked(ret)
    /\ ret.err = "index"
    /\ Cardinality(DOMAIN ext) >= 2
    /\ refs = NilCache

\* The reload that ends Branch or Tag failed after the ref was created.
C16_WitnessReload ==
    /\ LoadPanicked(ret)
    /\ ret.op \in {"Branch", "Tag"}
    /\ \E i \in 1..Len(cmds) : IsCreateCmd(cmds[i])
    /\ refs = NilCache

\* C17: Delete on a local ref runs the branch-delete command and on a tag the
\* tag-delete command, on the ref's name; when the command fails (the ref it
\* names is there as before), Delete returns a non-nil error and the cache
\* keeps the entry it has for the ref's name, as it keeps everything else.
C17_DeleteFailure ==
    [][(ret'.op = "Delete" /\ (IsLocal(held) \/ IsTag(held))) =>
            /\ IsLocal(held) => cmds' = <<DeleteCmd("branch", Name(held))>>
            /\ IsTag(held) => cmds' = <<DeleteCmd("tag", Name(held))>>
            /\ ext' = ext =>
                /\ ret'.err \notin {"none", "panic"}
                /\ ~ret'.ok
                /\ HasKey(refs, Name(held)) =>
                        (HasKey(refs', Name(held))
                            /\ refs'.map[Name(held)] = refs.map[Name(held)])
                /\ refs' = refs]_vars

\* The external tool refused to delete a branch that exists and is cached.
C17_Witness ==
    /\ ret.op = "Delete"
    /\ ret.err = "git"
    /\ IsLocal(ret.self)
    /\ ret.self.Path \in DOMAIN ext
    /\ Lookup(refs, Name(ret.self)) = ret.self

\* Deleting a tag that is gone failed while the cache has an entry of its name.
C17_WitnessTag ==
    /\ ret.op = "Delete"
    /\ ret.err = "git"
    /\ IsTag(ret.self)
    /\ HasKey(refs, Name(ret.self))

\* C19: with the refs changed only through the library, a loaded cache is the
\* map a fresh load of the repository's refs would produce, and HasRef finds
\* every ref of the repository under its short name.
C19_CacheCoherent ==
    /\ refs.loaded => refs = Loaded(ext)
    /\ (ret.op = "HasRef" /\ ~LoadPanicked(ret) /\ RefsNamed(ext, ret.arg) # {}) => ret.ok

\* C20: Delete on a Ref that Ref, Branch or Tag returned, a raw Ref included,
\* returns nil or an error: it never reaches the "Cannot happen!" panic.
C20_DeleteNeverPanics == ret.op = "Delete" => ret.err # "panic"

-----------------------------------------------------------------------------
(* Properties of remote tracking. *)

\* C7: TrackRemote(m) on a local ref leaves branch.<name>.remote = m and
\* branch.<name>.merge = the ref's Path, having written both keys unless they
\* were so already; a second TrackRemote(m) right after it issues no
\* set-config call, clears no section and leaves the configuration unchanged.
C7_TrackIdempotent ==
    [][/\ (ret'.op = "TrackRemote" /\ IsLocal(held)) =>
            /\ ret'.err = "none"
            /\ Get(cfg', Key(Section(Name(held)), "remote")).value = ret'.arg
            /\ Get(cfg', Key(Section(Name(held)), "merge")).value = held.Path
            /\ \/ /\ Get(cfg, Key(Section(Name(held)), "remote")).value = ret'.arg
                  /\ Get(cfg, Key(Section(Name(held)), "merge")).value = held.Path
               \/ /\ SetCmd(Key(Section(Name(held)), "remote"), ret'.arg)
                        \in {cmds'[i] : i \in 1..Len(cmds')}
                  /\ SetCmd(Key(Section(Name(held)), "merge"), held.Path)
                        \in {cmds'[i] : i \in 1..Len(cmds')}
       /\ (/\ ret.op = "TrackRemote" /\ ret.err = "none"
           /\ ret'.op = "TrackRemote" /\ ret'.arg = ret.arg) =>
            (cmds' = <<>> /\ cfg' = cfg)]_vars

\* A TrackRemote that wrote the two keys over a stale section.
C7_Witness ==
    /\ ret.op = "TrackRemote"
    /\ ret.err = "none"
    /\ Len(cmds) = 3
    /\ AlreadyTracking(cfg, held, ret.arg)

\* The keys the section of branch name has in the configuration c.
SectionKeys(c, name) == {k.key : k \in {x \in DOMAIN c : x.section = Section(name)}}

\* C14: a TrackRemote(m) on a local ref that returns nil and is not the
\* already-configured no-op leaves, whatever the section branch.<name> held
\* before, remote = m and merge = the ref's Path in it and no key the section
\* had before the call.
C14_TrackClearsSection ==
    [][(/\ ret'.op = "TrackRemote"
        /\ ret'.err = "none"
        /\ IsLocal(held)
        /\ ~(/\ Get(cfg, Key(Section(Name(held)), "remote")) =
                    [value |-> ret'.arg, exists |-> TRUE]
             /\ Get(cfg, Key(Section(Name(held)), "merge")) =
                    [value |-> held.Path, exists |-> TRUE])) =>
            /\ Get(cfg', Key(Section(Name(held)), "remote")) =
                    [value |-> ret'.arg, exists |-> TRUE]
            /\ Get(cfg', Key(Section(Name(held)), "merge")) =
                    [value |-> held.Path, exists |-> TRUE]
            /\ SectionKeys(cfg', Name(held)) = {"remote", "merge"}]_vars

-----------------------------------------------------------------------------
(* Properties of the status parser. *)

\* C2: a rename reported as the status record "R  <new>" followed by the raw
\* record "<old>" parses to exactly one StatLine, with indexStat "R", oldPath
\* <old> and newPath <new>.
C2_RenameParsed ==
    \A new \in StatusPaths : \A old \in StatusPaths \ {new} :
        (stdout = StatusRecord("R", " ", new) \o RawRecord(old) /\ statRet = "ok") =>
            /\ Len(statLines) = 1
            /\ statLines[1].indexStat = "R"
            /\ statLines[1].oldPath = old
            /\ statLines[1].newPath = new

\* The positions of the zero bytes of the status output: record k ends at the
\* k-th of them.
RecordEnds == {i \in 1..Len(stdout) : stdout[i] = NUL}

\* Where the record that ends at position i starts.
RecordStart(i) ==
    IF \E j \in RecordEnds : j < i
    THEN 1 + CHOOSE j \in RecordEnds : j < i /\ \A k \in RecordEnds : k < i => k <= j
    ELSE 1

\* The record that ends at position i, and whether it matches the pattern.
RecordAt(i) == SubSeq(stdout, RecordStart(i), i)
IsStatusRecord(i) == Matches(RecordAt(i))

\* The ends of the records that match the status pattern.
StatusEnds == {i \in RecordEnds : IsStatusRecord(i)}

\* The end of the k-th record that matches.
StatusEnd(k) == CHOOSE i \in StatusEnds : Cardinality({j \in StatusEnds : j <= i}) = k

\* The path of the status record that ends at i, without the zero byte.
PathAt(i) == SubSeq(stdout, RecordStart(i) + 3, i - 1)

\* The record after the one that ends at i is a raw record.
RawFollows(i) ==
    \E j \in RecordEnds : RecordStart(j) = i + 1 /\ ~IsStatusRecord(j)

\* C18: mapStatus returns one StatLine for each record of the output that
\* matches the status pattern, in the order of those records (the k-th
\* StatLine carries the path of the k-th such record), with indexStat and
\* workStat the record's two status codes; a StatLine whose record no raw
\* record follows has oldPath = newPath; and an output whose first record is
\* raw, which arrives with no StatLine pending, makes mapStatus panic and
\* return nothing.
C18_OneStatLinePerRecord ==
    /\ statRet = "ok" =>
        /\ Len(statLines) = Cardinality(StatusEnds)
        /\ \A k \in 1..Len(statLines) :
            /\ statLines[k].indexStat = stdout[RecordStart(StatusEnd(k))]
            /\ statLines[k].workStat = stdout[RecordStart(StatusEnd(k)) + 1]
            /\ SubSeq(statLines[k].oldPath, 1, Len(PathAt(StatusEnd(k)))) =
                    PathAt(StatusEnd(k))
            /\ ~RawFollows(StatusEnd(k)) => statLines[k].oldPath = statLines[k].newPath
    /\ statRet \in {"ok", "panic"} =>
        (statRet = "panic" <=> \E i \in RecordEnds : RecordStart(i) = 1 /\ ~IsStatusRecord(i))
    /\ statRet = "panic" => statLines = <<>>

\* mapStatus returned two different StatLines for two status records.
C18_Witness ==
    /\ statRet = "ok"
    /\ Len(statLines) = 2
    /\ Cardinality(StatusEnds) = 2
    /\ statLines[1] # statLines[2]

\* mapStatus took a raw record into the pending StatLine.
C18_WitnessRaw ==
    /\ statRet = "ok"
    /\ Len(statLines) = 1
    /\ Cardinality(RecordEnds) = 2
    /\ statLines[1].oldPath # statLines[1].newPath

\* mapStatus gave up on an output that starts with a raw record.
C18_WitnessPanic == statRet = "panic" /\ Cardinality(RecordEnds) = 2

-----------------------------------------------------------------------------
(* Properties of ancestry containment. *)

\* C12: r.Contains(other) returns (true, nil) whenever r.SHA = other.SHA, and
\* then issues no revision-range query; so r.Contains(r) is (true, nil) for
\* every ref r.
C12_ContainsReflexive ==
    (ret.op = "Contains" /\ held.SHA = other.SHA) =>
        (ret.ok /\ ret.err = "none" /\ cmds = <<>>)

\* Contains was called with a different Ref of the same SHA.
C12_Witness ==
    ret.op = "Contains" /\ held.SHA = other.SHA /\ held # other /\ ret.ok

\* Contains was called on a Ref with itself, a raw Ref included.
C12_WitnessSelf == ret.op = "Contains" /\ held = other /\ IsRaw(held) /\ ret.ok

\* The commit a reaches the commit b along parent links.
RECURSIVE Reaches(_, _, _)
Reaches(g, a, b) == a = b \/ \E p \in g[a] : Reaches(g, p, b)

\* C13: for Refs r and other whose SHAs name commits of the graph and whose
\* revision-range query succeeded, r.Contains(other) is true if and only if
\* every commit reachable from other is reachable from r.
C13_ContainsIffReachable ==
    (/\ ret.op = "Contains"
     /\ ret.err = "none"
     /\ held.SHA \in DOMAIN graph
     /\ other.SHA \in DOMAIN graph) =>
        (ret.ok <=> \A c \in DOMAIN graph :
                        Reaches(graph, other.SHA, c) => Reaches(graph, held.SHA, c))

\* Contains answered true for a proper ancestor after a query.
C13_Witness ==
    /\ ret.op = "Contains"
    /\ ret.err = "none"
    /\ held.SHA # other.SHA
    /\ cmds # <<>>
    /\ ret.ok

\* Contains answered false after a query.
C13_WitnessFalse ==
    ret.op = "Contains" /\ ret.err = "none" /\ cmds # <<>> /\ ~ret.ok

====
